---- MODULE Spec2Model ----
(***************************************************************************)
(* OID4VCI issuer / OID4VP verifier / StatusList2021 revocation services   *)
(* of packages/vc-agent, with the issuer and verifier backends that call   *)
(* them.                                                                   *)
(*                                                                         *)
(* The services are JavaScript classes whose methods are async functions.  *)
(* A call runs synchronously from one await to the next; between two       *)
(* awaits of one call, segments of other calls and clock ticks may run.    *)
(* Every action below is one such synchronous segment.  The stores are     *)
(* Maps holding object references: a call that has read `metadata` keeps   *)
(* the object alive and sees later writes to it, also after the key was    *)
(* deleted from the Map.  An object is therefore modelled by its key       *)
(* (offerObj, tokenObj, requestObj) and the Map by the set of keys it      *)
(* currently holds (offerStore, tokenStore, requestStore).                 *)
(***************************************************************************)
EXTENDS Integers, FiniteSets, Sequences, TLC

(* ------------------------------ bounds --------------------------------- *)
MaxTime == 3
MaxOffers == 1
MaxCalls == 2
MaxRequests == 1

(* Lifetimes in clock ticks, scaled down from the code's 3600 s (offers),  *)
(* 3600 s (tokens) and 600 s (presentation requests).                      *)
DefaultExpiresIn == 2
TokenExpiresIn == 2
RequestExpiresIn == 1

Codes == 1..MaxOffers
XCalls == 1..MaxCalls        \* exchangePreAuthorizedCode calls of a run
ICalls == 1..MaxCalls        \* issueCredential calls of a run
Tokens == 1..MaxCalls        \* every exchange call mints at most one token
NoCode == 0
NoToken == 0

NoPin == "none"                       \* user_pin absent (or empty: `!userPin`)
GeneratedPins == {"123456"}           \* generateUserPin: a random 6-digit string
SuppliedPins == {NoPin, "123456", "654321"}
NotSupplied == -1
ExpiresInInputs == {NotSupplied, 0, 1}

ErrInvalidCode == "Invalid pre-authorized code"
ErrCodeUsed == "Pre-authorized code already used"
ErrPinRequired == "User PIN required"
ErrPinInvalid == "Invalid user PIN"
ErrInvalidToken == "Invalid access token"
ErrSigner == "signer error"

VARIABLES
  now,          \* Date.now(), in ticks
  offerStore,   \* keys of OID4VCIssuerService.offerStore
  offerObj,     \* the OfferMetadata object created for each code
  nextCode,     \* number of codes generated so far
  tokenStore,   \* keys of OID4VCIssuerService.tokenStore
  tokenObj,     \* the TokenMetadata object created for each token
  nextToken,    \* number of access tokens generated so far
  xcall,        \* the exchangePreAuthorizedCode calls: position, locals, outcome
  icall,        \* the issueCredential calls: position, locals, outcome
  probeEvicted, \* history: codes a getOfferMetadata call of its own has evicted
  statusList,   \* StatusListService.statusList: the bit of every index
  nextIndex,    \* StatusListService.nextIndex
  indexMap,     \* StatusListService.indexMap: credential id -> index
  handedOut,    \* history: the indexes createStatusEntry returned, in order
  revokeLog,    \* history: what revokeCredential last returned for each id
  published,    \* the last answer of GET /status/1, with the list it encoded
  requestStore, \* keys of OID4VPVerifierService.requestStore
  requestObj,   \* the PresentationRequestMetadata object created for each state
  nextState,    \* number of presentation requests created so far
  lastPost,     \* history: the last POST /api/presentation-requests and its answer
  vcall         \* the verifyPresentation calls: position, locals, outcome

vars == <<now, offerStore, offerObj, nextCode, tokenStore, tokenObj, nextToken,
          xcall, icall, probeEvicted, statusList, nextIndex, indexMap,
          handedOut, revokeLog, published,
          requestStore, requestObj, nextState, lastPost, vcall>>

statusVars == <<statusList, nextIndex, indexMap, handedOut, revokeLog, published>>

verifierVars == <<requestStore, requestObj, nextState, lastPost, vcall>>

issuerVars == <<offerStore, offerObj, nextCode, tokenStore, tokenObj, nextToken,
                xcall, icall, probeEvicted>>

(* ------------------- credentials and the status list ------------------- *)
CredIds == 1..MaxCalls       \* the credential id POST /api/credential call k makes
NoCredId == 0
NoIndex == -1                \* indexMap.get(...) === undefined

(* the list holds 100000 bits and never fills; here one more than the runs use *)
StatusListLength == MaxCalls + 1
Indexes == 0..(StatusListLength - 1)

StatusListUrl == "issuer/status/1"

(* index.toString() and parseInt(statusListIndex, 10); NaN is what parseInt *)
(* returns for a string that does not start with a number                   *)
NaN == -2
IndexToString(n) == [digits |-> n]
NonNumeric == [digits |-> NaN]
ParseInt(str) == str.digits

(* a credential without credentialStatus *)
NoStatusEntry == [type |-> "none", statusPurpose |-> "none",
                  statusListIndex |-> IndexToString(NoIndex), statusListCredential |-> "none"]

(* createStatusEntry: the StatusListEntry it returns for the index it took *)
StatusEntry(index) ==
  [type |-> "StatusList2021Entry", statusPurpose |-> "revocation",
   statusListIndex |-> IndexToString(index), statusListCredential |-> StatusListUrl]

(* CREDENTIAL_TYPES, and createCredential's types when no additionalTypes   *)
(* are passed, as issueCredential calls it                                  *)
IdentityType == "IdentityCredential"
BaseTypes == {"VerifiableCredential", IdentityType}

(* no DID: undefined or the empty string, both falsy *)
NoDid == "none"

(* a credentialSubject without an id key *)
NoSubjectId == [id |-> NoDid]

(* { id: subjectDid, ...credentialSubjectWithoutId }: the copy keeps every  *)
(* key of the offer's credentialSubject, and a key spread after id replaces *)
(* it                                                                        *)
CredentialSubjectId(subjectDid, credentialSubject) ==
  IF credentialSubject.id # NoDid THEN credentialSubject.id ELSE subjectDid

(* createCredential: the credential built from the options; the options'    *)
(* credentialStatus is not among the fields it reads.  issuedAs is history: *)
(* the credential id the backend handed out with it.  proofValid: the       *)
(* credential's own JWT proof verifies against its issuer, as the agent's   *)
(* signature does.                                                           *)
CreateCredential(subjectDid, credentialSubject, credentialStatus, credId) ==
  [credentialStatus |-> NoStatusEntry, issuedAs |-> credId, proofValid |-> TRUE,
   subject |-> CredentialSubjectId(subjectDid, credentialSubject),
   type |-> BaseTypes]

NoCredential ==
  [credentialStatus |-> NoStatusEntry, issuedAs |-> NoCredId, proofValid |-> TRUE,
   subject |-> NoDid, type |-> BaseTypes]

(* statusList.encode() / decodeList({ encodedList }): the bitstring, packed *)
Encode(list) == [i \in 1..StatusListLength |-> IF list[i - 1] THEN 1 ELSE 0]
DecodeList_Shifted(encodedList) ==
  [i \in 0..(Len(encodedList) - 1) |->
     encodedList[IF i + 2 > Len(encodedList) THEN 1 ELSE i + 2] = 1]

DecodeList(encodedList) == [i \in 0..(Len(encodedList) - 1) |-> encodedList[i + 1] = 1]

(* generateStatusListCredential, as GET /status/1 serves it *)
GenerateStatusListCredential == [encodedList |-> Encode(statusList)]

CheckRevocationStatus_NeverRevoked(statusListCredential, statusListIndex) == FALSE

(* static checkRevocationStatus; getStatus throws off the list: caught, false *)
CheckRevocationStatus(statusListCredential, statusListIndex) ==
  LET list == DecodeList(statusListCredential.encodedList) IN
    IF statusListIndex \in DOMAIN list THEN list[statusListIndex] ELSE FALSE

CheckCredentialRevocationStatus_FailClosed(credential, fetched, response) ==
  LET st == credential.credentialStatus IN
    IF st = NoStatusEntry
    THEN [checked |-> FALSE, revoked |-> FALSE]
    ELSE IF st.type # "StatusList2021Entry"
    THEN [checked |-> FALSE, revoked |-> FALSE]
    ELSE IF st.statusPurpose # "revocation"
    THEN [checked |-> FALSE, revoked |-> FALSE]
    ELSE IF ~fetched
    THEN [checked |-> TRUE, revoked |-> TRUE]
    ELSE [checked |-> TRUE,
          revoked |-> CheckRevocationStatus(response, ParseInt(st.statusListIndex))]

(* static checkCredentialRevocationStatus; fetched: axios.get answered *)
CheckCredentialRevocationStatus(credential, fetched, response) ==
  LET st == credential.credentialStatus IN
    IF st = NoStatusEntry
    THEN [checked |-> FALSE, revoked |-> FALSE]
    ELSE IF st.type # "StatusList2021Entry"
    THEN [checked |-> FALSE, revoked |-> FALSE]
    ELSE IF st.statusPurpose # "revocation"
    THEN [checked |-> FALSE, revoked |-> FALSE]
    ELSE IF ~fetched
    THEN [checked |-> FALSE, revoked |-> FALSE]
    ELSE [checked |-> TRUE,
          revoked |-> CheckRevocationStatus(response, ParseInt(st.statusListIndex))]

CreateStatusEntryUpdate_SameIndex(credentialId) ==
  /\ nextIndex' = nextIndex
  /\ indexMap' = [indexMap EXCEPT ![credentialId] = nextIndex]
  /\ handedOut' = Append(handedOut, nextIndex)
  /\ UNCHANGED <<statusList, revokeLog, published>>

(* getNextIndex and createStatusEntry: the index is taken, the counter      *)
(* moves on, the id is set in the map                                       *)
CreateStatusEntryUpdate(credentialId) ==
  /\ nextIndex' = nextIndex + 1
  /\ indexMap' = [indexMap EXCEPT ![credentialId] = nextIndex]
  /\ handedOut' = Append(handedOut, nextIndex)
  /\ UNCHANGED <<statusList, revokeLog, published>>

(* createStatusEntry called on the service, for any credential id *)
CreateStatusEntry(credentialId) ==
  /\ nextIndex < StatusListLength
  /\ CreateStatusEntryUpdate(credentialId)
  /\ UNCHANGED <<now, issuerVars, verifierVars>>

(* createStatusEntry called when every index of the list has been handed    *)
(* out: it has no check of the list's length, the index it returns is the   *)
(* first one beyond the list                                                *)
CreateStatusEntryFull(credentialId) ==
  /\ nextIndex = StatusListLength
  /\ CreateStatusEntryUpdate(credentialId)
  /\ UNCHANGED <<now, issuerVars, verifierVars>>

(* getStats: the counts it returns; it reads the bits below nextIndex *)
GetStats ==
  [total |-> StatusListLength,
   issued |-> nextIndex,
   revoked |-> Cardinality({i \in Indexes : i < nextIndex /\ statusList[i]})]

(* revokeCredential: what it returns *)
RevokeCredentialResult(credId) == indexMap[credId] # NoIndex

(* POST /api/revoke: the status it answers with *)
RevokeResponse(credId) == IF RevokeCredentialResult(credId) THEN 200 ELSE 404

(* isRevoked *)
IsRevoked(credId) ==
  IF indexMap[credId] = NoIndex THEN FALSE ELSE statusList[indexMap[credId]] = TRUE

IsRevokedByIndex_NoGuard(index) ==
  IF index \notin Indexes THEN "throws"
  ELSE IF statusList[index] = TRUE THEN "true" ELSE "false"

(* isRevokedByIndex: what the promise settles with; getStatus throws for an *)
(* index off the list                                                       *)
IsRevokedByIndex(index) ==
  IF index < 0 \/ index >= nextIndex THEN "false"
  ELSE IF index \notin Indexes THEN "throws"
  ELSE IF statusList[index] = TRUE THEN "true" ELSE "false"

(* indexes asked for: negative ones, those of the list, one beyond its end *)
ProbedIndexes == (-2)..StatusListLength

RevokeCredential_Toggle(credId) ==
  /\ statusList' = IF indexMap[credId] = NoIndex THEN statusList
                   ELSE [statusList EXCEPT ![indexMap[credId]] = ~@]
  /\ revokeLog' = [revokeLog EXCEPT ![credId] =
                      IF RevokeCredentialResult(credId) THEN "true" ELSE "false"]
  /\ UNCHANGED <<now, issuerVars, nextIndex, indexMap, handedOut, published,
                 verifierVars>>

RevokeCredential_AnyId(credId) ==
  /\ statusList' = IF indexMap[credId] = NoIndex
                   THEN [statusList EXCEPT ![0] = TRUE]
                   ELSE [statusList EXCEPT ![indexMap[credId]] = TRUE]
  /\ revokeLog' = [revokeLog EXCEPT ![credId] =
                      IF RevokeCredentialResult(credId) THEN "true" ELSE "false"]
  /\ UNCHANGED <<now, issuerVars, nextIndex, indexMap, handedOut, published,
                 verifierVars>>

(* revokeCredential: the list afterwards (unknown id: unchanged, returns false) *)
RevokeCredential(credId) ==
  /\ statusList' = IF indexMap[credId] = NoIndex THEN statusList
                   ELSE [statusList EXCEPT ![indexMap[credId]] = TRUE]
  /\ revokeLog' = [revokeLog EXCEPT ![credId] =
                      IF RevokeCredentialResult(credId) THEN "true" ELSE "false"]
  /\ UNCHANGED <<now, issuerVars, nextIndex, indexMap, handedOut, published,
                 verifierVars>>

NoPublication == [credential |-> [encodedList |-> <<>>], list |-> <<>>]

GetStatusList_Allocating ==
  /\ published' = [credential |-> GenerateStatusListCredential, list |-> statusList]
  /\ nextIndex' = IF nextIndex < StatusListLength THEN nextIndex + 1 ELSE nextIndex
  /\ UNCHANGED <<now, issuerVars, statusList, indexMap, handedOut,
                 revokeLog, verifierVars>>

(* GET /status/1: generateStatusListCredential encodes the live list *)
GetStatusList ==
  /\ published' = [credential |-> GenerateStatusListCredential, list |-> statusList]
  /\ UNCHANGED <<now, issuerVars, statusList, nextIndex, indexMap, handedOut,
                 revokeLog, verifierVars>>

(* --------------------------- issuer service ---------------------------- *)
NoOffer == [userPin |-> NoPin, expiresAt |-> 0, used |-> FALSE,
            credentialSubject |-> NoSubjectId, subjectDid |-> NoDid,
            credentialType |-> IdentityType]
NoTokenMeta == [preAuthorizedCode |-> NoCode, expiresAt |-> 0, used |-> FALSE]

IdleX == [pc |-> "idle", code |-> NoCode, pin |-> NoPin, meta |-> NoCode,
          lookup |-> "none", result |-> "none", overlapped |-> FALSE,
          prior |-> {}]
IdleI == [pc |-> "idle", token |-> NoToken, code |-> NoCode, result |-> "none",
          cause |-> "none", afterSuccess |-> FALSE, credId |-> NoCredId, status |-> NoStatusEntry,
          holderDid |-> NoDid, subjectDid |-> NoDid, credentialSubject |-> NoSubjectId,
          credential |-> NoCredential]

(* a run uses the call slots in order *)
NextSlot(calls, k) ==
  /\ calls[k].pc = "idle"
  /\ IF k = 1 THEN TRUE ELSE calls[k - 1].pc # "idle"

(* new Date() > metadata.expiresAt *)
Expired(t, expiresAt) == t > expiresAt

(* expiresIn || this.config.defaultExpiresIn *)
ExpirationSeconds(expiresIn) ==
  IF expiresIn = NotSupplied \/ expiresIn = 0 THEN DefaultExpiresIn ELSE expiresIn

(* createCredentialOffer *)
CreateCredentialOffer(credentialType, credentialSubject, subjectDid, userPinRequired, pin, expiresIn) ==
  /\ nextCode < MaxOffers
  /\ LET c == nextCode + 1 IN
       /\ nextCode' = c
       /\ offerObj' = [offerObj EXCEPT ![c] =
                         [userPin |-> IF userPinRequired THEN pin ELSE NoPin,
                          expiresAt |-> now + ExpirationSeconds(expiresIn),
                          used |-> FALSE,
                          credentialSubject |-> credentialSubject,
                          subjectDid |-> subjectDid,
                          credentialType |-> credentialType]]
       /\ offerStore' = offerStore \cup {c}
  /\ UNCHANGED <<now, tokenStore, tokenObj, nextToken, xcall, icall, probeEvicted,
                 statusVars, verifierVars>>

OfferLookupResult_NoExpiry(c) ==
  IF c \notin offerStore THEN NoCode ELSE c

(* getOfferMetadata: the reference it returns (NoCode for null) *)
OfferLookupResult(c) ==
  IF c \notin offerStore THEN NoCode
  ELSE IF Expired(now, offerObj[c].expiresAt) THEN NoCode
  ELSE c

(* getOfferMetadata: the store after the lookup (lazy eviction) *)
OfferStoreAfterLookup(c) ==
  IF c \in offerStore /\ Expired(now, offerObj[c].expiresAt)
  THEN offerStore \ {c}
  ELSE offerStore

(* getOfferMetadata called on its own (the offers endpoint, any caller) *)
GetOfferMetadata(c) ==
  /\ offerStore' = OfferStoreAfterLookup(c)
  /\ probeEvicted' = IF offerStore' # offerStore THEN probeEvicted \cup {c}
                     ELSE probeEvicted
  /\ UNCHANGED <<now, offerObj, nextCode, tokenStore, tokenObj, nextToken, xcall, icall,
                 statusVars, verifierVars>>

(* history: what a lookup of code c meets: a code never generated, an offer *)
(* deleted from the store, a stored offer past its expiresAt, or a live one *)
OfferLookupKind(c) ==
  IF c > nextCode THEN "unknown"
  ELSE IF c \notin offerStore THEN "deleted"
  ELSE IF now > offerObj[c].expiresAt THEN "expired"
  ELSE "live"

(* history: an exchange call for code c is between its start and its return *)
ExchangeInFlight(c) ==
  \E j \in XCalls : xcall[j].code = c /\ xcall[j].pc \in {"awaitGet", "awaitMark"}

(* history: the exchange calls for code c that have returned *)
ExchangesReturned(c) ==
  {j \in XCalls : xcall[j].code = c /\ xcall[j].pc = "done"}

(* exchangePreAuthorizedCode up to `await this.getOfferMetadata(...)` *)
ExchangeStart(k, c, pin) ==
  /\ NextSlot(xcall, k)
  /\ xcall' = [xcall EXCEPT ![k] =
                 [IdleX EXCEPT !.pc = "awaitGet", !.code = c, !.pin = pin,
                               !.meta = OfferLookupResult(c),
                               !.lookup = OfferLookupKind(c),
                               !.overlapped = ExchangeInFlight(c),
                               !.prior = ExchangesReturned(c)]]
  /\ offerStore' = OfferStoreAfterLookup(c)
  /\ UNCHANGED <<now, offerObj, nextCode, tokenStore, tokenObj, nextToken, icall,
                 probeEvicted, statusVars, verifierVars>>

ExchangeChecks_AnyPin(meta, pin) ==
  IF meta = NoCode THEN ErrInvalidCode
  ELSE IF offerObj[meta].used THEN ErrCodeUsed
  ELSE IF offerObj[meta].userPin # NoPin /\ pin = NoPin THEN ErrPinRequired
  ELSE "ok"

ExchangeChecks_NoUsedCheck(meta, pin) ==
  IF meta = NoCode THEN ErrInvalidCode
  ELSE IF offerObj[meta].userPin # NoPin /\ pin = NoPin THEN ErrPinRequired
  ELSE IF offerObj[meta].userPin # NoPin /\ pin # offerObj[meta].userPin THEN ErrPinInvalid
  ELSE "ok"

ExchangeChecks_PinFirst(meta, pin) ==
  IF meta = NoCode THEN ErrInvalidCode
  ELSE IF offerObj[meta].userPin # NoPin /\ pin = NoPin THEN ErrPinRequired
  ELSE IF offerObj[meta].userPin # NoPin /\ pin # offerObj[meta].userPin THEN ErrPinInvalid
  ELSE IF offerObj[meta].used THEN ErrCodeUsed
  ELSE "ok"

(* the checks between the two awaits: "ok" or the message thrown *)
ExchangeChecks(meta, pin) ==
  IF meta = NoCode THEN ErrInvalidCode
  ELSE IF offerObj[meta].used THEN ErrCodeUsed
  ELSE IF offerObj[meta].userPin # NoPin /\ pin = NoPin THEN ErrPinRequired
  ELSE IF offerObj[meta].userPin # NoPin /\ pin # offerObj[meta].userPin THEN ErrPinInvalid
  ELSE "ok"

MarkOfferAsUsed_Skipped(c) == offerObj

(* markOfferAsUsed: marks the object the Map holds for the code, if any *)
MarkOfferAsUsed(c) ==
  IF c \in offerStore THEN [offerObj EXCEPT ![c].used = TRUE] ELSE offerObj

(* exchangePreAuthorizedCode from the lookup's await to `await markOfferAsUsed` *)
ExchangeCheck(k) ==
  /\ xcall[k].pc = "awaitGet"
  /\ LET verdict == ExchangeChecks(xcall[k].meta, xcall[k].pin) IN
       IF verdict # "ok"
       THEN /\ xcall' = [xcall EXCEPT ![k].pc = "done", ![k].result = verdict]
            /\ UNCHANGED offerObj
       ELSE /\ offerObj' = MarkOfferAsUsed(xcall[k].code)
            /\ xcall' = [xcall EXCEPT ![k].pc = "awaitMark"]
  /\ UNCHANGED <<now, offerStore, nextCode, tokenStore, tokenObj, nextToken, icall,
                 probeEvicted, statusVars, verifierVars>>

(* exchangePreAuthorizedCode after markOfferAsUsed: mint and store the token *)
ExchangeMint(k) ==
  /\ xcall[k].pc = "awaitMark"
  /\ LET t == nextToken + 1 IN
       /\ nextToken' = t
       /\ tokenObj' = [tokenObj EXCEPT ![t] =
                         [preAuthorizedCode |-> xcall[k].code,
                          expiresAt |-> now + TokenExpiresIn,
                          used |-> FALSE]]
       /\ tokenStore' = tokenStore \cup {t}
       /\ xcall' = [xcall EXCEPT ![k].pc = "done", ![k].result = "token"]
  /\ UNCHANGED <<now, offerStore, offerObj, nextCode, icall, probeEvicted,
                 statusVars, verifierVars>>

IssueChecks_NoUsedCheck(t) ==
  IF t \notin tokenStore THEN ErrInvalidToken
  ELSE IF Expired(now, tokenObj[t].expiresAt) THEN ErrInvalidToken
  ELSE IF tokenObj[t].preAuthorizedCode \notin offerStore THEN ErrInvalidToken
  ELSE "ok"

IssueChecks_ExpiryNamed(t) ==
  IF t \notin tokenStore THEN ErrInvalidToken
  ELSE IF Expired(now, tokenObj[t].expiresAt) THEN "Access token expired"
  ELSE IF tokenObj[t].used THEN ErrInvalidToken
  ELSE IF tokenObj[t].preAuthorizedCode \notin offerStore THEN ErrInvalidToken
  ELSE "ok"

(* issueCredential's validation: "ok" or the message thrown *)
IssueChecks(t) ==
  IF t \notin tokenStore THEN ErrInvalidToken
  ELSE IF Expired(now, tokenObj[t].expiresAt) THEN ErrInvalidToken
  ELSE IF tokenObj[t].used THEN ErrInvalidToken
  ELSE IF tokenObj[t].preAuthorizedCode \notin offerStore THEN ErrInvalidToken
  ELSE "ok"

(* history: the condition the validation meets: the token is not in the    *)
(* store, is past its expiresAt, is used, or its offer is not in the store  *)
IssueCause(t) ==
  IF t \notin tokenStore THEN "unknown"
  ELSE IF now > tokenObj[t].expiresAt THEN "expired"
  ELSE IF tokenObj[t].used THEN "used"
  ELSE IF tokenObj[t].preAuthorizedCode \notin offerStore THEN "offerGone"
  ELSE "none"

(* issueCredential: the token store after validation (expired token deleted) *)
TokenStoreAfterLookup(t) ==
  IF t \in tokenStore /\ Expired(now, tokenObj[t].expiresAt)
  THEN tokenStore \ {t}
  ELSE tokenStore

(* history: some issueCredential call has returned a credential for token t *)
CredentialReturned(t) ==
  \E j \in ICalls : icall[j].token = t /\ icall[j].result = "credential"

(* issueCredential up to `await credentialService.createCredential(...)` *)
IssueCredentialStart(k, t, holderDid, credId, credentialStatus) ==
  /\ NextSlot(icall, k)
  /\ LET verdict == IssueChecks(t)
         c0 == [IdleI EXCEPT !.token = t, !.afterSuccess = CredentialReturned(t),
                             !.cause = IssueCause(t),
                             !.holderDid = holderDid,
                             !.credId = credId, !.status = credentialStatus]
         offerMetadata == offerObj[tokenObj[t].preAuthorizedCode]
     IN
       /\ tokenStore' = TokenStoreAfterLookup(t)
       /\ icall' = [icall EXCEPT ![k] =
            IF verdict # "ok"
            THEN [c0 EXCEPT !.pc = "done", !.result = verdict]
            ELSE [c0 EXCEPT !.pc = "awaitSign",
                            !.code = tokenObj[t].preAuthorizedCode,
                            !.subjectDid = IF holderDid # NoDid THEN holderDid
                                           ELSE offerMetadata.subjectDid,
                            !.credentialSubject = offerMetadata.credentialSubject]]
  /\ UNCHANGED <<now, offerStore, offerObj, nextCode, tokenObj, nextToken, xcall,
                 probeEvicted, verifierVars>>

(* issueCredential called on the service with a holder DID, without a      *)
(* status entry                                                             *)
IssueFor(k, t, holderDid) ==
  /\ IssueCredentialStart(k, t, holderDid, NoCredId, NoStatusEntry)
  /\ UNCHANGED statusVars

(* issueCredential called on the service, without holder DID and status     *)
(* entry                                                                     *)
IssueStart(k, t) == IssueFor(k, t, NoDid)

(* POST /api/credential for a request without proof: createStatusEntry for *)
(* a fresh credential id, then issueCredential with the entry               *)
PostCredential(k, t) ==
  /\ CreateStatusEntryUpdate(k)
  /\ IssueCredentialStart(k, t, NoDid, k, StatusEntry(nextIndex))

IssueSigned_MarksOnFailure(k, signed) ==
  /\ icall[k].pc = "awaitSign"
  /\ tokenObj' = [tokenObj EXCEPT ![icall[k].token].used = TRUE]
  /\ tokenStore' = tokenStore \cup {icall[k].token}
  /\ icall' = [icall EXCEPT ![k].pc = "done",
                 ![k].result = IF signed THEN "credential" ELSE ErrSigner,
                 ![k].credential =
                    IF signed
                    THEN CreateCredential(icall[k].subjectDid, icall[k].credentialSubject,
                                          icall[k].status, icall[k].credId)
                    ELSE NoCredential]
  /\ UNCHANGED <<now, offerStore, offerObj, nextCode, nextToken, xcall, probeEvicted,
                 statusVars, verifierVars>>

(* issueCredential after the signer answered: mark the token used, return *)
IssueSigned(k, signed) ==
  /\ icall[k].pc = "awaitSign"
  /\ IF signed
     THEN /\ tokenObj' = [tokenObj EXCEPT ![icall[k].token].used = TRUE]
          /\ tokenStore' = tokenStore \cup {icall[k].token}
          /\ icall' = [icall EXCEPT ![k].pc = "done", ![k].result = "credential",
                         ![k].credential =
                            CreateCredential(icall[k].subjectDid,
                                             icall[k].credentialSubject,
                                             icall[k].status, icall[k].credId)]
     ELSE /\ icall' = [icall EXCEPT ![k].pc = "done", ![k].result = ErrSigner]
          /\ UNCHANGED <<tokenObj, tokenStore>>
  /\ UNCHANGED <<now, offerStore, offerObj, nextCode, nextToken, xcall, probeEvicted,
                 statusVars, verifierVars>>

(* -------------------------- verifier service --------------------------- *)
States == 1..MaxRequests     \* the state (and the nonce) of request s is s
VCalls == 1..MaxCalls        \* verifyPresentation calls of a run
NoState == 0
OtherNonce == 0              \* a nonce claim this verifier never generated
Nonces == States \cup {OtherNonce}

VerifierUrl == "verifier"
Audiences == {{}, {VerifierUrl}, {"other"}, {VerifierUrl, "other"}}

ErrInvalidRequest == "Invalid or expired presentation request"
ErrJwtFormat == "Invalid JWT format"
ErrAudMissing == "JWT missing audience claim"
ErrAudMismatch == "Audience mismatch"
ErrNonce == "Nonce mismatch"
ErrJwtExpired == "JWT expired"
ErrSignature == "Signature verification failed"
ErrStructure == "Invalid presentation structure - missing verifiableCredential"

NoRequest == [nonce |-> OtherNonce, expiresAt |-> 0, verified |-> FALSE]

(* a vp_token: wellFormed (three parts that decode), the payload's aud as   *)
(* the set of its entries, nonce, timely (exp and nbf admit the clock),     *)
(* sigValid (what the agent's verifyPresentation answers), hasVc (payload   *)
(* has vp.verifiableCredential) and the credentials embedded                 *)
Presentation(wellFormed, aud, nonce, timely, sigValid, hasVc, creds) ==
  [wellFormed |-> wellFormed, aud |-> aud, nonce |-> nonce, timely |-> timely,
   sigValid |-> sigValid, hasVc |-> hasVc, creds |-> creds]

NoPresentation == Presentation(FALSE, {}, OtherNonce, FALSE, FALSE, FALSE, <<>>)

IdleV == [pc |-> "idle", state |-> NoState, vp |-> NoPresentation, meta |-> NoState,
          lookup |-> "none", replay |-> FALSE, idx |-> 0, reads |-> <<>>,
          checked |-> <<>>,
          netOk |-> TRUE,
          revokedAtStart |-> {}, result |-> "none", credentialsValid |-> FALSE,
          error |-> "none"]

(* createPresentationRequest: the metadata it stores under a fresh state *)
StoreRequest ==
  LET s == nextState + 1 IN
    /\ nextState' = s
    /\ requestObj' = [requestObj EXCEPT ![s] =
                        [nonce |-> s, expiresAt |-> now + RequestExpiresIn,
                         verified |-> FALSE]]
    /\ requestStore' = requestStore \cup {s}

(* createPresentationRequest, called with a list of credential types *)
CreatePresentationRequest ==
  /\ nextState < MaxRequests
  /\ StoreRequest
  /\ UNCHANGED <<now, issuerVars, statusVars, lastPost, vcall>>

(* req.body.credentialTypes: given (truthy), an array, its length *)
CredentialTypes(given, array, length) ==
  [given |-> given, array |-> array, length |-> length]

CredentialTypesInputs ==
  {CredentialTypes(FALSE, FALSE, 0),     \* missing
   CredentialTypes(TRUE, FALSE, 1),      \* a string
   CredentialTypes(TRUE, TRUE, 0),       \* []
   CredentialTypes(TRUE, TRUE, 1)}       \* one type

NoPost == [credentialTypes |-> CredentialTypes(FALSE, FALSE, 0), status |-> 0,
           state |-> NoState]

RouteAccepts_Unchecked(credentialTypes) == TRUE

(* the route's check: credentialTypes is a non-empty array *)
RouteAccepts(credentialTypes) ==
  credentialTypes.given /\ credentialTypes.array /\ credentialTypes.length # 0

(* createPresentationRequest throws at credentialTypes.map(...) *)
ServiceThrows(credentialTypes) ==
  ~credentialTypes.given \/ ~credentialTypes.array

(* POST /api/presentation-requests *)
PostPresentationRequest(credentialTypes) ==
  /\ IF ~RouteAccepts(credentialTypes)
     THEN /\ lastPost' = [credentialTypes |-> credentialTypes, status |-> 400,
                          state |-> NoState]
          /\ UNCHANGED <<requestStore, requestObj, nextState>>
     ELSE IF ServiceThrows(credentialTypes)
     THEN /\ lastPost' = [credentialTypes |-> credentialTypes, status |-> 500,
                          state |-> NoState]
          /\ UNCHANGED <<requestStore, requestObj, nextState>>
     ELSE /\ nextState < MaxRequests
          /\ StoreRequest
          /\ lastPost' = [credentialTypes |-> credentialTypes, status |-> 200,
                          state |-> nextState + 1]
  /\ UNCHANGED <<now, issuerVars, statusVars, vcall>>

RequestLookupResult_NoExpiry(s) ==
  IF s \notin requestStore THEN NoState ELSE s

(* getRequestMetadata: the reference it returns (NoState for null) *)
RequestLookupResult(s) ==
  IF s \notin requestStore THEN NoState
  ELSE IF Expired(now, requestObj[s].expiresAt) THEN NoState
  ELSE s

(* getRequestMetadata: the store after the lookup (lazy eviction) *)
RequestStoreAfterLookup(s) ==
  IF s \in requestStore /\ Expired(now, requestObj[s].expiresAt)
  THEN requestStore \ {s}
  ELSE requestStore

(* getRequestMetadata called on its own (the request status endpoint) *)
GetRequestMetadata(s) ==
  /\ requestStore' = RequestStoreAfterLookup(s)
  /\ UNCHANGED <<now, issuerVars, statusVars, requestObj, nextState, lastPost, vcall>>

(* history: credential ids whose revocation has been recorded in the list *)
Revoked == {c \in CredIds : indexMap[c] # NoIndex /\ statusList[indexMap[c]]}

(* history: what a lookup of state s meets: a state never created, a        *)
(* request past its expiresAt, or a live request                             *)
LookupKind(s) ==
  IF s > nextState THEN "unknown"
  ELSE IF now > requestObj[s].expiresAt THEN "expired"
  ELSE "live"

(* history: the lookup of state s returns a request already marked verified *)
Replayed(s) ==
  RequestLookupResult(s) # NoState /\ requestObj[RequestLookupResult(s)].verified

(* verifyPresentation up to `await this.getRequestMetadata(state)` *)
VerifyStart(k, s, vp) ==
  /\ NextSlot(vcall, k)
  /\ vcall' = [vcall EXCEPT ![k] =
                 [IdleV EXCEPT !.pc = "awaitGet", !.state = s, !.vp = vp,
                               !.meta = RequestLookupResult(s),
                               !.lookup = LookupKind(s),
                               !.replay = Replayed(s),
                               !.revokedAtStart = Revoked]]
  /\ requestStore' = RequestStoreAfterLookup(s)
  /\ UNCHANGED <<now, issuerVars, statusVars, requestObj, nextState, lastPost>>

JwtChecks_AudienceLogged(vp, audience, nonce) ==
  IF ~vp.wellFormed THEN ErrJwtFormat
  ELSE IF vp.nonce # nonce THEN ErrNonce
  ELSE IF ~vp.timely THEN ErrJwtExpired
  ELSE "ok"

JwtChecks_NonceSkipped(vp, audience, nonce) ==
  IF ~vp.wellFormed THEN ErrJwtFormat
  ELSE IF vp.aud = {} THEN ErrAudMissing
  ELSE IF audience \notin vp.aud THEN ErrAudMismatch
  ELSE IF ~vp.timely THEN ErrJwtExpired
  ELSE "ok"

(* verifyPresentation's format check and verifyPresentationJWT up to the    *)
(* agent's signature verification: "ok" or the error message                *)
JwtChecks(vp, audience, nonce) ==
  IF ~vp.wellFormed THEN ErrJwtFormat
  ELSE IF vp.aud = {} THEN ErrAudMissing
  ELSE IF audience \notin vp.aud THEN ErrAudMismatch
  ELSE IF vp.nonce # nonce THEN ErrNonce
  ELSE IF ~vp.timely THEN ErrJwtExpired
  ELSE "ok"

Rejected(call, message) ==
  [call EXCEPT !.pc = "done", !.result = "rejected", !.error = message]

VerifyCheck_BurnsRequest(k) ==
  /\ vcall[k].pc = "awaitGet"
  /\ LET verdict == IF vcall[k].meta = NoState THEN "ok"
                    ELSE JwtChecks(vcall[k].vp, VerifierUrl,
                                   requestObj[vcall[k].meta].nonce)
     IN
       /\ vcall' = [vcall EXCEPT ![k] =
            IF vcall[k].meta = NoState
            THEN [vcall[k] EXCEPT !.pc = "done", !.result = "throw",
                                  !.error = ErrInvalidRequest]
            ELSE IF verdict # "ok" THEN Rejected(vcall[k], verdict)
            ELSE [vcall[k] EXCEPT !.pc = "awaitSig"]]
       /\ requestStore' = IF verdict # "ok" THEN requestStore \ {vcall[k].state}
                          ELSE requestStore
  /\ UNCHANGED <<now, issuerVars, statusVars, requestObj, nextState, lastPost>>

(* verifyPresentation from the lookup's await to the signature's await *)
VerifyCheck(k) ==
  /\ vcall[k].pc = "awaitGet"
  /\ vcall' = [vcall EXCEPT ![k] =
       IF vcall[k].meta = NoState
       THEN [vcall[k] EXCEPT !.pc = "done", !.result = "throw",
                             !.error = ErrInvalidRequest]
       ELSE LET verdict == JwtChecks(vcall[k].vp, VerifierUrl,
                                     requestObj[vcall[k].meta].nonce)
            IN IF verdict # "ok" THEN Rejected(vcall[k], verdict)
               ELSE [vcall[k] EXCEPT !.pc = "awaitSig"]]
  /\ UNCHANGED <<now, issuerVars, statusVars, requestStore, requestObj, nextState,
                 lastPost>>

Verified_NotMarked(k, call, allCredentialsValid) ==
  /\ requestObj' = requestObj
  /\ requestStore' = requestStore \cup {call.state}
  /\ vcall' = [vcall EXCEPT ![k] =
                 [call EXCEPT !.pc = "done", !.result = "verified",
                              !.credentialsValid = allCredentialsValid]]

Verified_OnceOnly(k, call, allCredentialsValid) ==
  /\ requestObj' = [requestObj EXCEPT ![call.meta].verified = TRUE]
  /\ requestStore' = requestStore \cup {call.state}
  /\ vcall' = [vcall EXCEPT ![k] =
                 IF requestObj[call.meta].verified
                 THEN Rejected(call, ErrInvalidRequest)
                 ELSE [call EXCEPT !.pc = "done", !.result = "verified",
                                   !.credentialsValid = allCredentialsValid]]

(* the end of verifyPresentation: metadata.verified = true, the metadata is *)
(* set in the store under the call's state, the result is returned          *)
Verified(k, call, allCredentialsValid) ==
  /\ requestObj' = [requestObj EXCEPT ![call.meta].verified = TRUE]
  /\ requestStore' = requestStore \cup {call.state}
  /\ vcall' = [vcall EXCEPT ![k] =
                 [call EXCEPT !.pc = "done", !.result = "verified",
                              !.credentialsValid = allCredentialsValid]]

(* verifyPresentation after the signature verification, up to the first    *)
(* credential's revocation check                                            *)
VerifySigned(k) ==
  /\ vcall[k].pc = "awaitSig"
  /\ IF ~vcall[k].vp.sigValid
     THEN /\ vcall' = [vcall EXCEPT ![k] = Rejected(vcall[k], ErrSignature)]
          /\ UNCHANGED <<requestObj, requestStore>>
     ELSE IF ~vcall[k].vp.hasVc
     THEN /\ vcall' = [vcall EXCEPT ![k] = Rejected(vcall[k], ErrStructure)]
          /\ UNCHANGED <<requestObj, requestStore>>
     ELSE IF vcall[k].vp.creds = <<>>
     THEN Verified(k, vcall[k], TRUE)
     ELSE /\ vcall' = [vcall EXCEPT ![k].pc = "awaitStatus", ![k].idx = 1]
          /\ UNCHANGED <<requestObj, requestStore>>
  /\ UNCHANGED <<now, issuerVars, statusVars, nextState, lastPost>>

(* the credential names a status list to fetch *)
HasStatusEntry(credential) ==
  /\ credential.credentialStatus # NoStatusEntry
  /\ credential.credentialStatus.type = "StatusList2021Entry"
  /\ credential.credentialStatus.statusPurpose = "revocation"

(* history: what the issuer's list said when the credential's bit was read *)
Reading(credential, fetched) ==
  LET st == credential.credentialStatus IN
    IF ~HasStatusEntry(credential) \/ ~fetched THEN "unread"
    ELSE IF ParseInt(st.statusListIndex) \notin Indexes THEN "unread"
    ELSE IF statusList[ParseInt(st.statusListIndex)] THEN "set"
    ELSE "unset"

(* verifyPresentation's loop: one credential's revocation check answered *)
VerifyStatus(k, fetched) ==
  /\ vcall[k].pc = "awaitStatus"
  /\ LET credential == vcall[k].vp.creds[vcall[k].idx]
         revocationCheck == CheckCredentialRevocationStatus(
                              credential, fetched, GenerateStatusListCredential)
         call == [vcall[k] EXCEPT
                    !.reads = Append(@, Reading(credential, fetched)),
                    !.checked = Append(@, revocationCheck.checked),
                    !.netOk = @ /\ (fetched \/ ~HasStatusEntry(credential))]
     IN IF revocationCheck.checked /\ revocationCheck.revoked
        THEN Verified(k, call, FALSE)
        ELSE IF vcall[k].idx = Len(vcall[k].vp.creds)
        THEN Verified(k, call, TRUE)
        ELSE /\ vcall' = [vcall EXCEPT ![k] = [call EXCEPT !.idx = @ + 1]]
             /\ UNCHANGED <<requestObj, requestStore>>
  /\ UNCHANGED <<now, issuerVars, statusVars, nextState, lastPost>>

(* the wall clock advances *)
Tick ==
  /\ now < MaxTime
  /\ now' = now + 1
  /\ UNCHANGED <<issuerVars, statusVars, verifierVars>>

Init ==
  /\ now = 0
  /\ offerStore = {}
  /\ offerObj = [c \in Codes |-> NoOffer]
  /\ nextCode = 0
  /\ tokenStore = {}
  /\ tokenObj = [t \in Tokens |-> NoTokenMeta]
  /\ nextToken = 0
  /\ xcall = [k \in XCalls |-> IdleX]
  /\ icall = [k \in ICalls |-> IdleI]
  /\ probeEvicted = {}
  /\ statusList = [i \in Indexes |-> FALSE]
  /\ nextIndex = 0
  /\ indexMap = [c \in CredIds |-> NoIndex]
  /\ handedOut = <<>>
  /\ revokeLog = [c \in CredIds |-> "none"]
  /\ published = NoPublication
  /\ requestStore = {}
  /\ requestObj = [s \in States |-> NoRequest]
  /\ nextState = 0
  /\ lastPost = NoPost
  /\ vcall = [k \in VCalls |-> IdleV]

(* credentials a holder can embed: those the issuer returned, and ones that *)
(* carry a status entry the issuer's list has allocated                      *)
IssuedCredentials ==
  {icall[k].credential : k \in {j \in ICalls : icall[j].result = "credential"}}

PointerCredentials ==
  {[credentialStatus |-> StatusEntry(i), issuedAs |-> NoCredId, proofValid |-> TRUE,
     subject |-> NoDid, type |-> BaseTypes] :
     i \in {j \in Indexes : j < nextIndex}}

Wallet == IssuedCredentials \cup PointerCredentials

CredentialLists(creds) ==
  {<<a>> : a \in creds} \cup {<<a, b>> : a \in creds, b \in creds}

(* one credential the wallet holds, or two different ones that carry a      *)
(* status entry                                                              *)
WalletLists ==
  {<<a>> : a \in Wallet}
  \cup {l \in CredentialLists(PointerCredentials) : Len(l) = 2 /\ l[1] # l[2]}

(* credentials whose status cannot be confirmed: one without                *)
(* credentialStatus, and for the first index of the list one with another   *)
(* status type and one with another status purpose                          *)
UncheckableCredentials ==
  {NoCredential,
   [credentialStatus |-> [StatusEntry(0) EXCEPT !.type = "RevocationList2020Status"],
    issuedAs |-> NoCredId, proofValid |-> TRUE,
     subject |-> NoDid, type |-> BaseTypes],
   [credentialStatus |-> [StatusEntry(0) EXCEPT !.statusPurpose = "suspension"],
    issuedAs |-> NoCredId, proofValid |-> TRUE,
     subject |-> NoDid, type |-> BaseTypes]}

(* a credential whose status entry is malformed: its statusListIndex is not *)
(* a number                                                                  *)
MalformedCredentials ==
  {[credentialStatus |-> [StatusEntry(0) EXCEPT !.statusListIndex = NonNumeric],
    issuedAs |-> NoCredId, proofValid |-> TRUE, subject |-> NoDid, type |-> BaseTypes]}

(* a credential whose own proof does not verify: its payload decodes, its   *)
(* signature is not the issuer's                                             *)
ForgedCredentials == {[NoCredential EXCEPT !.proofValid = FALSE]}

(* one credential of either kind, a forged or a malformed one, or an        *)
(* uncheckable one followed by one that carries a status entry of the list  *)
StatusCheckLists ==
  {<<a>> : a \in UncheckableCredentials \cup PointerCredentials
                  \cup ForgedCredentials \cup MalformedCredentials}
  \cup {l \in CredentialLists(UncheckableCredentials \cup PointerCredentials) :
          /\ Len(l) = 2
          /\ l[1] \in UncheckableCredentials
          /\ l[2] \in PointerCredentials}

(* the presentation without credentials that passes every check for s *)
ValidPresentation(s) == Presentation(TRUE, {VerifierUrl}, s, TRUE, TRUE, TRUE, <<>>)

(* presentations sent for request s: the valid one and those that differ    *)
(* from it in the audience, in the nonce and the signature, in the format,  *)
(* in the validity period or in the payload                                 *)
HeaderPresentations(s) ==
  {Presentation(TRUE, a, s, TRUE, TRUE, TRUE, <<>>) : a \in Audiences}
  \cup {Presentation(TRUE, {VerifierUrl}, n, TRUE, sv, TRUE, <<>>) :
          n \in {s, OtherNonce}, sv \in BOOLEAN}
  \cup {Presentation(FALSE, {VerifierUrl}, s, TRUE, TRUE, TRUE, <<>>),
        Presentation(TRUE, {VerifierUrl}, s, FALSE, TRUE, TRUE, <<>>),
        Presentation(TRUE, {VerifierUrl}, s, TRUE, TRUE, FALSE, <<>>)}

(* presentations made for request s that pass every check on the JWT *)
ValidPresentations(s, lists) ==
  {Presentation(TRUE, {VerifierUrl}, s, TRUE, TRUE, TRUE, l) : l \in lists}

Next ==
  \/ Tick
  \/ \E pinRequired \in BOOLEAN, pin \in GeneratedPins, e \in ExpiresInInputs :
       CreateCredentialOffer(IdentityType, NoSubjectId, NoDid, pinRequired, pin, e)
  \/ \E c \in Codes : GetOfferMetadata(c)
  \/ \E k \in XCalls, c \in Codes, pin \in SuppliedPins : ExchangeStart(k, c, pin)
  \/ \E k \in XCalls : ExchangeCheck(k)
  \/ \E k \in XCalls : ExchangeMint(k)
  \/ \E k \in ICalls, t \in Tokens : IssueStart(k, t)
  \/ \E k \in ICalls, t \in Tokens : PostCredential(k, t)
  \/ \E k \in ICalls, signed \in BOOLEAN : IssueSigned(k, signed)
  \/ \E c \in CredIds : CreateStatusEntry(c)
  \/ \E c \in CredIds : RevokeCredential(c)
  \/ GetStatusList
  \/ CreatePresentationRequest
  \/ \E ct \in CredentialTypesInputs : PostPresentationRequest(ct)
  \/ \E s \in States : GetRequestMetadata(s)
  \/ \E k \in VCalls, s \in States :
       \E vp \in HeaderPresentations(s)
                 \cup ValidPresentations(s, CredentialLists(Wallet)) :
         VerifyStart(k, s, vp)
  \/ \E k \in VCalls : VerifyCheck(k)
  \/ \E k \in VCalls : VerifySigned(k)
  \/ \E k \in VCalls, fetched \in BOOLEAN : VerifyStatus(k, fetched)

Spec == Init /\ [][Next]_vars

(* The code-for-token exchange alone: offers, lookups and exchange calls. *)
(* The issuer frontend creates its next offer once the previous one is     *)
(* consumed or evicted and no exchange is in flight.  A wallet sends a PIN *)
(* only for an offer that was created with one.                            *)
OffersSettled ==
  /\ \A c \in Codes : c <= nextCode => (c \notin offerStore \/ offerObj[c].used)
  /\ \A k \in XCalls : xcall[k].pc \in {"idle", "done"}

NextExchange ==
  \/ Tick
  \/ /\ OffersSettled
     /\ \E pinRequired \in BOOLEAN, pin \in GeneratedPins, e \in ExpiresInInputs :
          CreateCredentialOffer(IdentityType, NoSubjectId, NoDid, pinRequired, pin, e)
  \/ \E c \in Codes : GetOfferMetadata(c)
  \/ \E k \in XCalls, c \in Codes, pin \in SuppliedPins :
       /\ (c > nextCode \/ offerObj[c].userPin = NoPin) => pin = NoPin
       /\ ExchangeStart(k, c, pin)
  \/ \E k \in XCalls : ExchangeCheck(k)
  \/ \E k \in XCalls : ExchangeMint(k)

SpecExchange == Init /\ [][NextExchange]_vars

(* Token-for-credential issuance: offers without PIN, each stored offer    *)
(* exchanged one call at a time with the clock and the issuance calls       *)
(* waiting for it; issueCredential calls may overlap each other and the     *)
(* clock, and present a minted token or the next one not yet minted.        *)
NoExchangeInFlight == \A k \in XCalls : xcall[k].pc \in {"idle", "done"}

NextIssue ==
  \/ NoExchangeInFlight /\ Tick
  \/ /\ OffersSettled
     /\ \E pin \in GeneratedPins : CreateCredentialOffer(IdentityType, NoSubjectId, NoDid, FALSE, pin, NotSupplied)
  \/ /\ NoExchangeInFlight
     /\ \E k \in XCalls, c \in offerStore : ExchangeStart(k, c, NoPin)
  \/ \E k \in XCalls : ExchangeCheck(k)
  \/ \E k \in XCalls : ExchangeMint(k)
  \/ /\ NoExchangeInFlight
     /\ \E k \in ICalls, t \in Tokens : t <= nextToken + 1 /\ IssueStart(k, t)
  \/ \E k \in ICalls, signed \in BOOLEAN : IssueSigned(k, signed)

SpecIssue == Init /\ [][NextIssue]_vars

(* the DID a wallet's proof names (none without proof), the subjectDid an   *)
(* offer is created with (the backend's is empty), and the credentialSubject *)
(* of an offer, without or with an id key of its own                        *)
HolderDids == {NoDid, "did:key:holder"}
SubjectDids == {NoDid, "did:key:subject"}
CredentialSubjects == {NoSubjectId, [id |-> "did:example:claimed"]}

(* the credentialType of an offer: any string *)
OfferedTypes == {IdentityType, "UniversityDegreeCredential"}

(* The subject and types of issued credentials: offers without PIN created  *)
(* with any credential type and subject data, exchanged and issued from one *)
(* call at a time, with or without a holder DID; the signer answers.        *)
NoIssueInFlight == \A k \in ICalls : icall[k].pc \in {"idle", "done"}

NextSubject ==
  \/ NoExchangeInFlight /\ NoIssueInFlight /\ Tick
  \/ /\ OffersSettled
     /\ \E ct \in OfferedTypes, cs \in CredentialSubjects, d \in SubjectDids :
          CreateCredentialOffer(ct, cs, d, FALSE, NoPin, NotSupplied)
  \/ /\ NoExchangeInFlight
     /\ \E k \in XCalls, c \in offerStore : ExchangeStart(k, c, NoPin)
  \/ \E k \in XCalls : ExchangeCheck(k)
  \/ \E k \in XCalls : ExchangeMint(k)
  \/ /\ NoExchangeInFlight /\ NoIssueInFlight
     /\ \E k \in ICalls, t \in tokenStore, h \in HolderDids : IssueFor(k, t, h)
  \/ \E k \in ICalls : IssueSigned(k, TRUE)

SpecSubject == Init /\ [][NextSubject]_vars

(* Failing and retried issuance steps: offers with or without PIN,          *)
(* exchanged one call at a time with any PIN while stored; issueCredential  *)
(* calls with stored tokens may overlap each other, and the signer answers  *)
(* or throws; the clock advances between the calls.                         *)
NextRetry ==
  \/ NoExchangeInFlight /\ NoIssueInFlight /\ Tick
  \/ /\ OffersSettled
     /\ \E pinRequired \in BOOLEAN, pin \in GeneratedPins :
          CreateCredentialOffer(IdentityType, NoSubjectId, NoDid, pinRequired, pin, NotSupplied)
  \/ /\ NoExchangeInFlight
     /\ \E k \in XCalls, c \in offerStore, pin \in SuppliedPins :
          /\ offerObj[c].userPin = NoPin => pin = NoPin
          /\ ExchangeStart(k, c, pin)
  \/ \E k \in XCalls : ExchangeCheck(k)
  \/ \E k \in XCalls : ExchangeMint(k)
  \/ /\ NoExchangeInFlight
     /\ \E k \in ICalls, t \in tokenStore : IssueStart(k, t)
  \/ \E k \in ICalls, signed \in BOOLEAN : IssueSigned(k, signed)

SpecRetry == Init /\ [][NextRetry]_vars

(* Presentation verification alone, for presentations without credentials. *)
(* The verifier frontend creates its next request once the previous one is  *)
(* verified or evicted and no verification is in flight.  Calls with valid  *)
(* presentations overlap; one with a defective presentation runs alone;     *)
(* a call for a state never created carries the valid presentation.         *)
RequestsSettled ==
  /\ \A s \in States : s <= nextState => (s \notin requestStore \/ requestObj[s].verified)
  /\ \A k \in VCalls : vcall[k].pc \in {"idle", "done"}

MayOverlap(s, vp) ==
  \/ \A j \in VCalls : vcall[j].pc \in {"idle", "done"}
  \/ /\ vp = ValidPresentation(s)
     /\ \A j \in VCalls : vcall[j].pc \notin {"idle", "done"} =>
          vcall[j].vp = ValidPresentation(vcall[j].state)

NextVerify ==
  \/ Tick
  \/ RequestsSettled /\ CreatePresentationRequest
  \/ \E s \in States : GetRequestMetadata(s)
  \/ \E k \in VCalls, s \in States :
       \E vp \in HeaderPresentations(s) :
         /\ s > nextState => vp = ValidPresentation(s)
         /\ MayOverlap(s, vp)
         /\ VerifyStart(k, s, vp)
  \/ \E k \in VCalls : VerifyCheck(k)
  \/ \E k \in VCalls : VerifySigned(k)

SpecVerify == Init /\ [][NextVerify]_vars

(* The verifier backend's routes: requests posted with any credentialTypes, *)
(* status lookups, and verifications of the valid presentation.             *)
NextRequest ==
  \/ Tick
  \/ \E ct \in CredentialTypesInputs : PostPresentationRequest(ct)
  \/ \E s \in States : GetRequestMetadata(s)
  \/ \E k \in VCalls, s \in States : VerifyStart(k, s, ValidPresentation(s))
  \/ \E k \in VCalls : VerifyCheck(k)
  \/ \E k \in VCalls : VerifySigned(k)

SpecRequest == Init /\ [][NextRequest]_vars

(* Issuance through the backend, revocation and verification within one    *)
(* lifetime.  A wallet exchanges the code of an unused offer without PIN,   *)
(* requests credentials with the tokens it got from POST /api/credential,   *)
(* one call at a time, and answers each presentation request once, with     *)
(* credentials it holds; the signer answers; the issuer revokes ids it has  *)
(* handed an index at any moment, also between two status checks of one     *)
(* verification.                                                             *)
NoVerifyInFlight == \A k \in VCalls : vcall[k].pc \in {"idle", "done"}

NextRevocation ==
  \/ /\ OffersSettled /\ NoIssueInFlight /\ NoVerifyInFlight
     /\ \E pin \in GeneratedPins : CreateCredentialOffer(IdentityType, NoSubjectId, NoDid, FALSE, pin, NotSupplied)
  \/ /\ NoExchangeInFlight /\ NoIssueInFlight /\ NoVerifyInFlight
     /\ \E k \in XCalls, c \in Codes :
          c \in offerStore /\ ~offerObj[c].used /\ ExchangeStart(k, c, NoPin)
  \/ \E k \in XCalls : ExchangeCheck(k)
  \/ \E k \in XCalls : ExchangeMint(k)
  \/ /\ NoExchangeInFlight /\ NoIssueInFlight /\ NoVerifyInFlight
     /\ \E k \in ICalls, t \in tokenStore : PostCredential(k, t)
  \/ \E k \in ICalls : IssueSigned(k, TRUE)
  \/ \E c \in CredIds \ Revoked : indexMap[c] # NoIndex /\ RevokeCredential(c)
  \/ RequestsSettled /\ CreatePresentationRequest
  \/ /\ NoExchangeInFlight /\ NoIssueInFlight /\ NoVerifyInFlight
     /\ \E k \in VCalls, s \in requestStore :
          /\ \A j \in VCalls : vcall[j].state # s
          /\ \E vp \in ValidPresentations(s, WalletLists) : VerifyStart(k, s, vp)
  \/ \E k \in VCalls : VerifyCheck(k)
  \/ \E k \in VCalls : VerifySigned(k)
  \/ \E k \in VCalls, fetched \in BOOLEAN : VerifyStatus(k, fetched)

SpecRevocation == Init /\ [][NextRevocation]_vars

(* Status checks of a verifier against a status list that is filled        *)
(* directly: entries for fresh credential ids, revocations of ids with an   *)
(* index whose bit is unset, at any moment; each presentation request is    *)
(* answered once, with credentials whose status can or cannot be confirmed; *)
(* the fetch of the list may fail; the list is published once it has an     *)
(* entry.                                                                    *)
NextStatusCheck ==
  \/ nextIndex > 0 /\ GetStatusList
  \/ \E c \in CredIds : c = nextIndex + 1 /\ CreateStatusEntry(c)
  \/ \E c \in CredIds \ Revoked : indexMap[c] # NoIndex /\ RevokeCredential(c)
  \/ RequestsSettled /\ CreatePresentationRequest
  \/ /\ NoVerifyInFlight
     /\ \E k \in VCalls, s \in requestStore :
          /\ \A j \in VCalls : vcall[j].state # s
          /\ \E vp \in ValidPresentations(s, StatusCheckLists) : VerifyStart(k, s, vp)
  \/ \E k \in VCalls : VerifyCheck(k)
  \/ \E k \in VCalls : VerifySigned(k)
  \/ \E k \in VCalls, fetched \in BOOLEAN : VerifyStatus(k, fetched)

SpecStatusCheck == Init /\ [][NextStatusCheck]_vars

(* checkCredentialRevocationStatus returns before axios.get: the credential *)
(* names no status list to fetch                                            *)
StatusUnfetched(k) ==
  /\ vcall[k].pc = "awaitStatus"
  /\ ~HasStatusEntry(vcall[k].vp.creds[vcall[k].idx])
  /\ VerifyStatus(k, FALSE)

(* the promise of axios.get(statusListCredential) settles: the endpoint     *)
(* answered (fetched) or the request failed                                 *)
StatusAnswered(k, fetched) ==
  /\ vcall[k].pc = "awaitStatus"
  /\ HasStatusEntry(vcall[k].vp.creds[vcall[k].idx])
  /\ VerifyStatus(k, fetched)

(* The status checks of SpecStatusCheck with the remote endpoint made       *)
(* explicit.  The event loop resumes every call whose await is on local     *)
(* work; axios.get is called without timeout, so a call awaiting the        *)
(* endpoint is resumed only when the endpoint answers or the connection     *)
(* fails, and nothing obliges either to happen.                             *)
NextFetch ==
  \/ \E c \in CredIds : c = nextIndex + 1 /\ CreateStatusEntry(c)
  \/ \E c \in CredIds \ Revoked : indexMap[c] # NoIndex /\ RevokeCredential(c)
  \/ RequestsSettled /\ CreatePresentationRequest
  \/ /\ NoVerifyInFlight
     /\ \E k \in VCalls, s \in requestStore :
          /\ \A j \in VCalls : vcall[j].state # s
          /\ \E vp \in ValidPresentations(s, StatusCheckLists) : VerifyStart(k, s, vp)
  \/ \E k \in VCalls : VerifyCheck(k)
  \/ \E k \in VCalls : VerifySigned(k)
  \/ \E k \in VCalls : StatusUnfetched(k)
  \/ \E k \in VCalls, fetched \in BOOLEAN : StatusAnswered(k, fetched)

SpecFetch ==
  /\ Init /\ [][NextFetch]_vars
  /\ WF_vars(\E k \in VCalls : VerifyCheck(k))
  /\ WF_vars(\E k \in VCalls : VerifySigned(k))
  /\ WF_vars(\E k \in VCalls : StatusUnfetched(k))

(* The status list service alone, called by any issuer backend: entries for *)
(* any credential id, revocations of any id, and publications of the list.  *)
NextStatus ==
  \/ \E c \in CredIds : CreateStatusEntry(c)
  \/ \E c \in CredIds : RevokeCredential(c)
  \/ GetStatusList

SpecStatus == Init /\ [][NextStatus]_vars

(* The status list filled to its end and one entry further: entries for any *)
(* credential id, revocations of ids whose index is on the list.            *)
NextCapacity ==
  \/ \E c \in CredIds : CreateStatusEntry(c)
  \/ \E c \in CredIds : CreateStatusEntryFull(c)
  \/ \E c \in CredIds : indexMap[c] \in Indexes /\ RevokeCredential(c)

SpecCapacity == Init /\ [][NextCapacity]_vars

(* ------------------------------- claims -------------------------------- *)
XDone(k) == xcall[k].pc = "done"

(* the PIN the call supplied is the offer's PIN, if the offer has one *)
ValidPin(k) ==
  /\ xcall[k].code \in Codes
  /\ offerObj[xcall[k].code].userPin \in {NoPin, xcall[k].pin}

(* calls a and b are the only exchange calls made for code c *)
OnlyExchanges(a, b, c) ==
  \A j \in XCalls \ {a, b} : xcall[j].code # c

TokensOf(c) == {t \in tokenStore : tokenObj[t].preAuthorizedCode = c}

(* C4 as claimed: in every reachable state the token store holds at most    *)
(* one access token whose source code is a given pre-authorized code.       *)
C4_OneTokenPerCode ==
  \A c \in Codes : Cardinality(TokensOf(c)) <= 1

(* the call went past the used check, so it reached the PIN check *)
ReachedPinCheck(k) ==
  /\ XDone(k)
  /\ xcall[k].meta # NoCode
  /\ xcall[k].result # ErrCodeUsed
  /\ offerObj[xcall[k].meta].userPin # NoPin

PinFailure(k) ==
  /\ xcall[k].pc = "awaitGet"
  /\ xcall'[k].pc = "done"
  /\ xcall'[k].result \in {ErrPinRequired, ErrPinInvalid}

(* C5: for an offer created with a PIN (live and unused when the call       *)
(* checks it) an exchange without a PIN fails with 'User PIN required', one *)
(* with another PIN fails with 'Invalid user PIN', only the stored PIN      *)
(* succeeds; a call failing so marks no offer used and creates no token.    *)
C5_PinValidation ==
  /\ [](\A k \in XCalls : ReachedPinCheck(k) =>
          LET stored == offerObj[xcall[k].meta].userPin IN
            /\ xcall[k].pin = NoPin => xcall[k].result = ErrPinRequired
            /\ xcall[k].pin \notin {NoPin, stored} => xcall[k].result = ErrPinInvalid
            /\ xcall[k].pin = stored => xcall[k].result = "token")
  /\ [][\A k \in XCalls : PinFailure(k) =>
          /\ offerObj' = offerObj
          /\ tokenStore' = tokenStore
          /\ nextToken' = nextToken]_vars

(* C5 witness: an offer with a PIN has seen a call without PIN, one with a  *)
(* wrong PIN, and is still unused.                                          *)
C5_Witness ==
  \E a, b \in XCalls :
    /\ ReachedPinCheck(a) /\ ReachedPinCheck(b)
    /\ xcall[a].code = xcall[b].code
    /\ xcall[a].result = ErrPinRequired
    /\ xcall[b].result = ErrPinInvalid
    /\ ~offerObj[xcall[a].code].used
    /\ TokensOf(xcall[a].code) = {}

(* C2: an issueCredential call made after a call with the same token has    *)
(* returned a credential fails at once with 'Invalid access token' and      *)
(* issues nothing, so calls made one after another succeed at most once.    *)
C2_SecondIssuanceFails ==
  \A k \in ICalls :
    icall[k].afterSuccess =>
      icall[k].pc = "done" /\ icall[k].result = ErrInvalidToken

(* C2 witness: a token has returned a credential and a later call with it   *)
(* has been rejected.                                                       *)
C2_Witness ==
  \E a, b \in ICalls :
    /\ a # b
    /\ icall[a].token = icall[b].token
    /\ icall[a].result = "credential"
    /\ icall[b].afterSuccess
    /\ icall[b].result = ErrInvalidToken

CredentialsFor(t) ==
  {k \in ICalls : icall[k].token = t /\ icall[k].result = "credential"}

(* C3 as claimed: of the issueCredential calls made with one token, also    *)
(* overlapping ones, at most one returns a credential.                      *)
C3_AtMostOneCredentialPerToken ==
  \A t \in Tokens : Cardinality(CredentialsFor(t)) <= 1

VDone(k) == vcall[k].pc = "done"

VStarts(k) == vcall[k].pc = "idle" /\ vcall'[k].pc # "idle"

NonceMismatch(k) ==
  /\ vcall[k].meta # NoState
  /\ vcall[k].vp.nonce # requestObj[vcall[k].meta].nonce

(* the call is one that marked request s verified: it returned verified=true *)
MarkedBy(k, s) == vcall[k].meta = s /\ vcall[k].result = "verified"

(* C6: a verifyPresentation call that found its request and whose            *)
(* presentation carries another nonce than the request's returns            *)
(* verified=false, with a valid signature as with an invalid one; a request *)
(* is marked verified only by calls that returned verified=true, none of    *)
(* which carried another nonce.                                              *)
C6_NonceMismatchRejected ==
  /\ \A k \in VCalls : VDone(k) /\ NonceMismatch(k) => vcall[k].result = "rejected"
  /\ \A s \in States : requestObj[s].verified => \E k \in VCalls : MarkedBy(k, s)
  /\ \A k \in VCalls, s \in States : MarkedBy(k, s) => ~NonceMismatch(k)

(* C6 witness: a validly signed presentation for this verifier with another *)
(* nonce was rejected for its nonce and its request is not verified.         *)
C6_Witness ==
  \E k \in VCalls :
    /\ VDone(k) /\ NonceMismatch(k)
    /\ vcall[k].vp.sigValid /\ VerifierUrl \in vcall[k].vp.aud
    /\ vcall[k].result = "rejected" /\ vcall[k].error = ErrNonce
    /\ ~requestObj[vcall[k].meta].verified

AudienceMismatch(k) ==
  /\ vcall[k].meta # NoState
  /\ vcall[k].vp.wellFormed
  /\ VerifierUrl \notin vcall[k].vp.aud

C8_StaleRequestFails ==
  /\ [](\A k \in VCalls : VDone(k) /\ vcall[k].lookup \in {"unknown", "expired"} =>
          vcall[k].result = "throw" /\ vcall[k].error = ErrInvalidRequest)
  /\ [](\A a, b \in VCalls :
          (a < b /\ vcall[a].lookup = "expired" /\ vcall[b].state = vcall[a].state) =>
            vcall[b].lookup = "expired" /\ vcall[b].result # "verified")
  /\ [][\A k \in VCalls : VStarts(k) /\ vcall'[k].lookup = "expired" =>
          vcall'[k].state \notin requestStore']_vars

(* C8 witness: two calls, one after the other, with a presentation valid    *)
(* for the request, both made after the request expired, both failed.       *)
C8_Witness ==
  \E a, b \in VCalls :
    /\ a < b /\ VDone(a) /\ VDone(b)
    /\ vcall[a].state = vcall[b].state
    /\ vcall[a].lookup = "expired" /\ vcall[b].lookup = "expired"
    /\ vcall[a].vp = Presentation(TRUE, {VerifierUrl}, vcall[a].state, TRUE, TRUE, TRUE, <<>>)
    /\ vcall[a].result = "throw" /\ vcall[b].result = "throw"
    /\ vcall[a].state \notin requestStore

PassesValidation(k) ==
  /\ vcall[k].meta # NoState
  /\ vcall[k].vp.wellFormed /\ vcall[k].vp.timely /\ vcall[k].vp.hasVc
  /\ vcall[k].vp.sigValid
  /\ VerifierUrl \in vcall[k].vp.aud
  /\ ~NonceMismatch(k)

ReadsOf(k) == {vcall[k].reads[i] : i \in DOMAIN vcall[k].reads}

(* C9: a finished verifyPresentation call whose presentation passes the     *)
(* signature, nonce and audience validation returns verified=true; with     *)
(* credentialsValid=false if the status bit it read for an embedded         *)
(* credential was set, with credentialsValid=true if it read the bit of     *)
(* every embedded credential and each was unset.                            *)
C9_RevokedBitInvalidatesCredentials ==
  \A k \in VCalls :
    VDone(k) /\ PassesValidation(k) =>
      /\ vcall[k].result = "verified"
      /\ "set" \in ReadsOf(k) => ~vcall[k].credentialsValid
      /\ (ReadsOf(k) = {"unset"} /\ Len(vcall[k].reads) = Len(vcall[k].vp.creds)) =>
            vcall[k].credentialsValid

(* C9 witness: a presentation of two credentials, the first's bit read      *)
(* unset and the second's set, came back verified with invalid credentials. *)
C9_Witness ==
  \E k \in VCalls :
    /\ VDone(k) /\ PassesValidation(k)
    /\ vcall[k].reads = <<"unset", "set">>
    /\ vcall[k].result = "verified" /\ ~vcall[k].credentialsValid

IssuedIn(k) ==
  {vcall[k].vp.creds[i].issuedAs : i \in DOMAIN vcall[k].vp.creds} \ {NoCredId}

(* C10 as claimed: a verification, started after revokeCredential returned  *)
(* true for the id handed out with a credential the presentation embeds and *)
(* whose fetches of the issuer's status list all succeed, returns           *)
(* credentialsValid=false; a verification of issued credentials of which    *)
(* none is revoked when it ends returns credentialsValid=true.              *)
C10_RevocationReachesVerifier ==
  \A k \in VCalls :
    (VDone(k) /\ vcall[k].result = "verified" /\ vcall[k].netOk) =>
      /\ IssuedIn(k) \cap vcall[k].revokedAtStart # {} => ~vcall[k].credentialsValid
      /\ (IssuedIn(k) # {} /\ IssuedIn(k) \cap Revoked = {}
            /\ \A i \in DOMAIN vcall[k].vp.creds :
                 vcall[k].vp.creds[i].issuedAs # NoCredId) =>
            vcall[k].credentialsValid

(* C11: an exchangePreAuthorizedCode call that meets a stored offer past    *)
(* its expiresAt fails with 'Invalid pre-authorized code', the error of a   *)
(* call for a code never generated; from that lookup on the store is        *)
(* without the offer; the call creates no token.                            *)
C11_ExpiredOfferNotRedeemable ==
  \A k \in XCalls :
    /\ xcall[k].lookup = "expired" =>
         /\ xcall[k].code \notin offerStore
         /\ xcall[k].pc \in {"awaitGet", "done"}
         /\ XDone(k) => xcall[k].result = ErrInvalidCode
    /\ (XDone(k) /\ xcall[k].lookup = "unknown") => xcall[k].result = ErrInvalidCode

(* C11 witness: an offer never exchanged was presented after its expiry,    *)
(* with the PIN it asks for; the call failed, the offer is gone, no token.  *)
C11_Witness ==
  \E k \in XCalls :
    /\ XDone(k) /\ xcall[k].lookup = "expired" /\ ValidPin(k)
    /\ ~offerObj[xcall[k].code].used
    /\ xcall[k].result = ErrInvalidCode
    /\ xcall[k].code \notin offerStore
    /\ TokensOf(xcall[k].code) = {}

(* C12: an issueCredential call that meets a token not in the store, an     *)
(* expired token, a used token or a token whose offer is gone fails at once *)
(* with 'Invalid access token': two calls that differ in which of these     *)
(* holds get the same response.                                             *)
C12_TokenFailuresIndistinguishable ==
  /\ \A k \in ICalls :
       icall[k].cause # "none" =>
         icall[k].pc = "done" /\ icall[k].result = ErrInvalidToken
  /\ \A a, b \in ICalls :
       (icall[a].cause # "none" /\ icall[b].cause # "none") =>
         icall[a].result = icall[b].result

(* C12 witness: the same minted token was refused once because its offer    *)
(* was gone and once for another of the conditions, with one response.      *)
C12_Witness ==
  \E a, b \in ICalls :
    /\ icall[a].token = icall[b].token
    /\ icall[a].cause = "offerGone"
    /\ icall[b].cause \in {"unknown", "expired", "used"}
    /\ icall[a].result = ErrInvalidToken /\ icall[b].result = ErrInvalidToken

(* C13: once a verifyPresentation call has returned verified=true for a     *)
(* state, the stored request has verified=true in every later state, also   *)
(* after further failing or succeeding calls for it, and getRequestMetadata *)
(* for the state returns a request with verified=true or null.              *)
C13_VerifiedNeverRegresses ==
  \A s \in States :
    (\E k \in VCalls : MarkedBy(k, s)) =>
      /\ requestObj[s].verified
      /\ RequestLookupResult(s) \in {NoState, s}
      /\ RequestLookupResult(s) # NoState =>
           requestObj[RequestLookupResult(s)].verified

(* C13 witness: a request was verified, a later call for it was rejected,   *)
(* and a lookup of the state still returns it with verified=true.           *)
C13_Witness ==
  \E a, b \in VCalls :
    /\ a < b
    /\ MarkedBy(a, vcall[a].state)
    /\ vcall[b].state = vcall[a].state
    /\ VDone(b) /\ vcall[b].result = "rejected"
    /\ RequestLookupResult(vcall[a].state) = vcall[a].state
    /\ requestObj[vcall[a].state].verified

(* C14: revokeCredential for a credential id without an index returns false *)
(* (the endpoint answers 404) and changes no bit; for an id with an index   *)
(* it returns true, sets the bit at that index and no other, and isRevoked  *)
(* of the id is true afterwards.                                            *)
C14_RevokeByAllocation ==
  [][\A c \in CredIds :
       RevokeCredential(c) =>
         IF indexMap[c] = NoIndex
         THEN /\ ~RevokeCredentialResult(c) /\ revokeLog'[c] = "false"
              /\ RevokeResponse(c) = 404
              /\ statusList' = statusList
         ELSE /\ RevokeCredentialResult(c) /\ revokeLog'[c] = "true"
              /\ RevokeResponse(c) = 200
              /\ statusList'[indexMap[c]]
              /\ \A i \in Indexes \ {indexMap[c]} : statusList'[i] = statusList[i]
              /\ IsRevoked(c)']_vars

(* C14 witness: one id was refused before it had an index, another id with  *)
(* an index was revoked and isRevoked answers true for it.                  *)
C14_Witness ==
  \E c, d \in CredIds :
    /\ revokeLog[c] = "false" /\ indexMap[c] = NoIndex
    /\ revokeLog[d] = "true" /\ IsRevoked(d)
    /\ \A i \in Indexes : statusList[i] <=> i = indexMap[d]

(* C15: a bit of the status list that is 1 is 1 in every later state,       *)
(* whatever entries are created, ids revoked and lists published after it.  *)
C15_RevocationMonotonic ==
  [][\A i \in Indexes : statusList[i] => statusList'[i]]_vars

(* C15 witness: a bit that a published list already shows as set is still   *)
(* set after the later revocation of another index.                         *)
C15_Witness ==
  \E i \in Indexes :
    /\ published # NoPublication
    /\ published.list[i] /\ statusList[i]
    /\ \E j \in Indexes \ {i} : statusList[j] /\ ~published.list[j]

(* C16: nextIndex never decreases; the indexes createStatusEntry has        *)
(* returned are strictly increasing in the order of the calls, so none was  *)
(* handed out twice, also when the bit of an earlier one is set; each is    *)
(* below nextIndex.                                                         *)
C16_IndexesNeverReused ==
  /\ [][nextIndex' >= nextIndex]_vars
  /\ [](\A a, b \in DOMAIN handedOut : a < b => handedOut[a] < handedOut[b])
  /\ [](\A a \in DOMAIN handedOut : handedOut[a] < nextIndex)

(* C16 witness: the bit of the first index handed out is set, two further   *)
(* entries were created, and a revoked id now holds a later index.          *)
C16_Witness ==
  /\ Len(handedOut) >= 3
  /\ statusList[handedOut[1]]
  /\ \E c \in CredIds : revokeLog[c] = "true" /\ indexMap[c] > handedOut[1]

(* C17 as claimed: createStatusEntry for a credential id that already has   *)
(* an index leaves nextIndex and the id's index unchanged.                  *)
C17_DuplicateAllocationRejected ==
  [][\A c \in CredIds :
       (CreateStatusEntry(c) /\ indexMap[c] # NoIndex) =>
          nextIndex' = nextIndex /\ indexMap' = indexMap]_vars

Unconfirmable(credential) ==
  \A fetched \in BOOLEAN :
    (fetched => ~HasStatusEntry(credential)) =>
      CheckCredentialRevocationStatus(credential, fetched, GenerateStatusListCredential)
        = [checked |-> FALSE, revoked |-> FALSE]

(* C19: a finished verifyPresentation call whose presentation passes the    *)
(* JWT validation returns verified=true; the check of each credential whose *)
(* status it could not read (no credentialStatus, another type or purpose,  *)
(* list not fetched) answered checked=false, revoked=false; and             *)
(* credentialsValid is false only if the call read a set bit, so with no    *)
(* status read at all it is true.                                           *)
C19_StatusErrorsNonFatal ==
  \A k \in VCalls :
    (VDone(k) /\ PassesValidation(k)) =>
      /\ vcall[k].result = "verified"
      /\ \A i \in DOMAIN vcall[k].reads :
           vcall[k].reads[i] = "unread" => Unconfirmable(vcall[k].vp.creds[i])
      /\ ~vcall[k].credentialsValid => "set" \in ReadsOf(k)
      /\ ReadsOf(k) = {"unread"} => vcall[k].credentialsValid

(* C19 witness: a credential with an unsupported status type, then one      *)
(* whose bit is set in the issuer's list but whose list could not be        *)
(* fetched: verified, credentials valid.                                    *)
C19_Witness ==
  \E k \in VCalls :
    /\ VDone(k) /\ PassesValidation(k)
    /\ Len(vcall[k].vp.creds) = 2
    /\ vcall[k].vp.creds[1].credentialStatus.type = "RevocationList2020Status"
    /\ HasStatusEntry(vcall[k].vp.creds[2])
    /\ statusList[ParseInt(vcall[k].vp.creds[2].credentialStatus.statusListIndex)]
    /\ vcall[k].reads = <<"unread", "unread">>
    /\ ~vcall[k].netOk
    /\ vcall[k].result = "verified" /\ vcall[k].credentialsValid

PinFailed(k) == XDone(k) /\ xcall[k].result \in {ErrPinRequired, ErrPinInvalid}

(* the call was made for a generated code and did not fail on the PIN: it   *)
(* returned a token, 'already used', or 'Invalid pre-authorized code'       *)
Settled(k) == XDone(k) /\ xcall[k].lookup # "unknown" /\ ~PinFailed(k)

(* C21 as claimed: an exchange call for a generated code that starts after  *)
(* a call for the same code has failed, for whatever reason, does not       *)
(* return a token.                                                          *)
C21_EveryFailureTerminal ==
  \A b \in XCalls : \A a \in xcall[b].prior :
    (xcall[a].lookup # "unknown" /\ xcall[a].result # "token") =>
      xcall[b].result # "token"

(* C21 amended: an exchange call that starts after a call for the same      *)
(* generated code has returned with anything but a PIN failure does not     *)
(* return a token; the offer's state is terminal then.                      *)
C21_NonPinOutcomesTerminal ==
  \A b \in XCalls : \A a \in xcall[b].prior :
    Settled(a) => (XDone(b) => xcall[b].result \in {ErrCodeUsed, ErrInvalidCode})

(* C21 witness: a call failed because the offer had expired, and a later    *)
(* call for the code with the offer's PIN failed too.                       *)
C21_Witness ==
  \E b \in XCalls : \E a \in xcall[b].prior :
    /\ xcall[a].lookup = "expired" /\ xcall[a].result = ErrInvalidCode
    /\ XDone(b) /\ ValidPin(b)
    /\ xcall[b].result = ErrInvalidCode

(* C22: verifyPresentation returns credentialsValid=true only if the proof  *)
(* of every credential embedded in the presentation verifies; a             *)
(* presentation with a valid outer signature and an embedded credential     *)
(* whose own signature is invalid never yields credentialsValid=true.       *)
C22_EmbeddedSignaturesVerified ==
  \A k \in VCalls :
    (vcall[k].result = "verified" /\ vcall[k].credentialsValid) =>
      \A i \in DOMAIN vcall[k].vp.creds : vcall[k].vp.creds[i].proofValid


(* C23: a credential issued by an issueCredential call that was given a     *)
(* holder identifier has that identifier as its subject identifier; one     *)
(* issued by a call given none has the subject identifier stored in the     *)
(* offer.                                                                    *)
C23_SubjectIsHolderDid ==
  \A k \in ICalls :
    icall[k].result = "credential" =>
      icall[k].credential.subject =
        IF icall[k].holderDid # NoDid THEN icall[k].holderDid
        ELSE offerObj[icall[k].code].subjectDid

(* C24: every verifyPresentation call that was started eventually returns  *)
(* a result, also when the status-list endpoint never responds.             *)
C24_VerifyAlwaysReturns ==
  \A k \in VCalls : (vcall[k].pc # "idle") ~> (vcall[k].pc = "done")

(* an exchangePreAuthorizedCode call returns a PIN or already-used failure  *)
(* in this step                                                             *)
ExchangeFails(k) ==
  /\ xcall[k].pc # "done" /\ xcall'[k].pc = "done"
  /\ xcall'[k].result \in {ErrPinRequired, ErrPinInvalid, ErrCodeUsed}

(* an issueCredential call throws in this step *)
IssueFails(k) ==
  /\ icall[k].pc # "done" /\ icall'[k].pc = "done"
  /\ icall'[k].result # "credential"

(* an issueCredential call is made in this step with a stored, unexpired,   *)
(* unused token whose offer is stored                                       *)
IssueRetried(k) ==
  /\ icall[k].pc = "idle" /\ icall'[k].pc # "idle"
  /\ icall'[k].token \in tokenStore
  /\ ~Expired(now, tokenObj[icall'[k].token].expiresAt)
  /\ ~tokenObj[icall'[k].token].used
  /\ tokenObj[icall'[k].token].preAuthorizedCode \in offerStore

(* C25: a failed issuance step leaves the issuance state unchanged.  The    *)
(* step in which exchangePreAuthorizedCode fails on the PIN or on a used    *)
(* code changes no offer and no token; the step in which issueCredential    *)
(* fails, the signer's failure included, changes the used flag of no token  *)
(* and no offer; and an issueCredential call with a stored, unexpired token *)
(* that no call has consumed passes the validation, whatever failed before. *)
C25_FailedStepsChangeNothing ==
  [][/\ \A k \in XCalls :
          ExchangeFails(k) =>
            UNCHANGED <<offerStore, offerObj, tokenStore, tokenObj, nextToken>>
     /\ \A k \in ICalls :
          IssueFails(k) =>
            /\ \A t \in Tokens : tokenObj'[t].used = tokenObj[t].used
            /\ UNCHANGED <<offerStore, offerObj, nextToken>>
     /\ \A k \in ICalls : IssueRetried(k) => icall'[k].pc = "awaitSign"]_vars

(* the signer threw in one issueCredential call and a later call with the   *)
(* same token returned the credential, after an exchange of the offer's     *)
(* code had failed on the PIN                                               *)
C25_Witness ==
  /\ \E a, b \in ICalls :
       /\ a < b /\ icall[a].token = icall[b].token
       /\ icall[a].result = ErrSigner /\ icall[b].result = "credential"
  /\ \E a \in XCalls : xcall[a].result \in {ErrPinRequired, ErrPinInvalid}

(* a verifyPresentation call returns verified=false in this step *)
VerifyRejects(k) ==
  /\ vcall[k].pc # "done" /\ vcall'[k].pc = "done"
  /\ vcall'[k].result = "rejected"

(* C26: the step in which a verifyPresentation call returns verified=false  *)
(* leaves the request store and every stored request (verified, nonce,      *)
(* expiresAt) unchanged; and every call that finds its request stored and   *)
(* unexpired and presents the valid matching presentation returns           *)
(* verified=true, whatever calls for that state failed before.              *)
C26_FailedVerifyRetryable ==
  /\ [][\A k \in VCalls : VerifyRejects(k) => UNCHANGED <<requestStore, requestObj>>]_vars
  /\ [](\A k \in VCalls :
          (/\ VDone(k) /\ vcall[k].meta # NoState
           /\ vcall[k].vp = ValidPresentation(vcall[k].state)) =>
            vcall[k].result = "verified")

(* C26 witness: a call with a validly signed presentation that carries      *)
(* another nonce was rejected, the next call for the same state with the    *)
(* valid presentation returned verified=true.                               *)
C26_Witness ==
  \E a, b \in VCalls :
    /\ a < b /\ vcall[a].state = vcall[b].state
    /\ vcall[a].result = "rejected" /\ vcall[a].error = ErrNonce
    /\ vcall[b].vp = ValidPresentation(vcall[b].state)
    /\ vcall[b].result = "verified"
    /\ requestObj[vcall[b].state].verified

(* C27: issueCredential never issues a credential from an offer whose       *)
(* expiresAt has passed: no call passes the validation when the offer of    *)
(* its token is past expiresAt, whether or not a lookup has evicted it.     *)
C27_ExpiredOfferNeverIssued ==
  [][\A k \in ICalls :
       (icall[k].pc = "idle" /\ icall'[k].pc = "awaitSign") =>
         ~Expired(now, offerObj[icall'[k].code].expiresAt)]_vars

(* C28: a revocation check reports checked=true only if the status list    *)
(* was fetched and the credential's bit was read at an index of the list; a *)
(* status entry whose statusListIndex is not a number is reported with      *)
(* checked=false.                                                           *)
C28_CheckedOnlyWhenRead ==
  \A k \in VCalls : \A i \in DOMAIN vcall[k].checked :
    vcall[k].checked[i] => vcall[k].reads[i] # "unread"

(* C29: the lifecycle of an offer and its token only moves forward: no step *)
(* resets offer.used or token.used from true to false; every token in the   *)
(* token store references a code whose offer, if still stored, has          *)
(* used=true; and every credential returned was issued for an offer that    *)
(* had been redeemed, through a token minted for that offer's code.         *)
C29_LifecycleForward ==
  /\ [][/\ \A c \in Codes : offerObj[c].used => offerObj'[c].used
        /\ \A t \in Tokens : tokenObj[t].used => tokenObj'[t].used]_vars
  /\ [](\A t \in tokenStore :
          tokenObj[t].preAuthorizedCode \in offerStore =>
            offerObj[tokenObj[t].preAuthorizedCode].used)
  /\ [](\A k \in ICalls :
          icall[k].result = "credential" =>
            /\ offerObj[icall[k].code].used
            /\ tokenObj[icall[k].token].preAuthorizedCode = icall[k].code
            /\ \E x \in XCalls :
                 xcall[x].code = icall[k].code /\ xcall[x].result = "token")

(* C29 witness: an offer was created, redeemed for a token and the token    *)
(* consumed by an issueCredential call that returned the credential; both   *)
(* used flags are set and the offer and the token are still stored.         *)
C29_Witness ==
  \E k \in ICalls :
    /\ icall[k].result = "credential"
    /\ icall[k].token \in tokenStore /\ tokenObj[icall[k].token].used
    /\ icall[k].code \in offerStore /\ offerObj[icall[k].code].used

(* C30: isRevokedByIndex returns false, without an error, for every         *)
(* negative index and every index at or beyond nextIndex, and a revocation  *)
(* of an allocated index leaves its result for such an index the same.      *)
C30_UnallocatedIndexNotRevoked ==
  /\ [](\A i \in ProbedIndexes :
          (i < 0 \/ i >= nextIndex) => IsRevokedByIndex(i) = "false")
  /\ [][\A i \in ProbedIndexes :
          (statusList' # statusList /\ (i < 0 \/ i >= nextIndex)) =>
            IsRevokedByIndex(i)' = IsRevokedByIndex(i)]_vars

(* C30 witness: index 0 is allocated and revoked, isRevokedByIndex reports  *)
(* it, and returns false for the first unallocated index, for a negative    *)
(* index and for the index beyond the end of the list.                      *)
C30_Witness ==
  /\ nextIndex \in 1..(StatusListLength - 1)
  /\ statusList[0] /\ IsRevokedByIndex(0) = "true"
  /\ IsRevokedByIndex(nextIndex) = "false"
  /\ IsRevokedByIndex(-1) = "false"
  /\ IsRevokedByIndex(StatusListLength) = "false"

(* C31: revokeCredential(A) leaves nextIndex and the id -> index map        *)
(* unchanged and isRevoked(B) as it was for every other credential id B;    *)
(* and an id that createStatusEntry allocates reads isRevoked = false        *)
(* afterwards, whatever was revoked before.                                 *)
C31_RevocationTouchesOnlyItsOwnBit ==
  /\ [][\A a \in CredIds :
          RevokeCredential(a) =>
            /\ nextIndex' = nextIndex /\ indexMap' = indexMap
            /\ \A b \in CredIds \ {a} : IsRevoked(b)' = IsRevoked(b)]_vars
  /\ [][\A b \in CredIds : CreateStatusEntry(b) => ~IsRevoked(b)']_vars

(* C31 witness: credential 1 holds index 0 and is revoked, credential 2      *)
(* holds index 1, allocated after index 0, and is not revoked.              *)
C31_Witness ==
  /\ handedOut = <<0, 1>>
  /\ indexMap[1] = 0 /\ indexMap[2] = 1
  /\ revokeLog[1] = "true" /\ IsRevoked(1)
  /\ ~IsRevoked(2)

(* C32: generateStatusListCredential and checkRevocationStatus are         *)
(* read-only on the status list: the step that publishes the encoded list   *)
(* and the step in which a verification decodes a fetched list and reads a  *)
(* bit change neither nextIndex nor the id -> index map nor any bit.        *)
C32_EncodeDecodeReadOnly ==
  [][(GetStatusList \/ \E k \in VCalls, fetched \in BOOLEAN : VerifyStatus(k, fetched)) =>
       UNCHANGED <<statusList, nextIndex, indexMap>>]_vars

(* C32 witness: a list with a set bit was published as it is, and a         *)
(* verification has read the set bit from the decoded list; the bit, the    *)
(* counter and the map still show the one revoked entry.                    *)
C32_Witness ==
  /\ published # NoPublication /\ published.list = statusList
  /\ DecodeList(published.credential.encodedList) = statusList
  /\ \E k \in VCalls : "set" \in {vcall[k].reads[i] : i \in DOMAIN vcall[k].reads}
  /\ nextIndex = 1 /\ indexMap[1] = 0 /\ statusList[0]

(* C33: a token is redeemable only while now < expiresAt: no issueCredential *)
(* call passes the validation at or after its token's expiresAt.            *)
C33_RedeemableOnlyBeforeExpiry ==
  [][\A k \in ICalls :
       (icall[k].pc = "idle" /\ icall'[k].pc = "awaitSign") =>
         now < tokenObj[icall'[k].token].expiresAt]_vars

(* C34: a POST /api/credential request whose token fails the validation    *)
(* leaves nextIndex and the id -> index map as they were.                   *)
C34_FailedRequestAllocatesNothing ==
  [][\A k \in ICalls :
       (icall[k].pc = "idle" /\ icall'[k].pc = "done"
        /\ icall'[k].result = ErrInvalidToken) =>
         nextIndex' = nextIndex /\ indexMap' = indexMap]_vars

(* C35: every index createStatusEntry has handed out lies inside the list,  *)
(* nextIndex never exceeds the list's length, and getStats satisfies        *)
(* revoked <= issued <= total.                                              *)
C35_IndexesWithinCapacity ==
  /\ \A a \in DOMAIN handedOut : handedOut[a] < StatusListLength
  /\ nextIndex <= StatusListLength
  /\ GetStats.revoked <= GetStats.issued
  /\ GetStats.issued <= GetStats.total

(* C36: verifyPresentation does not consume the request: a call that finds  *)
(* its request unexpired and already marked verified, and presents the      *)
(* valid matching presentation, returns verified=true again and leaves the  *)
(* request stored with verified=true.                                       *)
C36_VerifiedRequestReplayable ==
  [][\A k \in VCalls :
       (/\ vcall[k].pc # "done" /\ vcall'[k].pc = "done"
        /\ vcall[k].replay
        /\ vcall[k].vp = ValidPresentation(vcall[k].state)) =>
         /\ vcall'[k].result = "verified"
         /\ vcall[k].state \in requestStore'
         /\ requestObj'[vcall[k].state].verified]_vars

(* C36 witness: a call returned verified=true for a request; a later call   *)
(* met the request already verified, presented the same valid presentation  *)
(* and returned verified=true too; the request is stored and verified.      *)
C36_Witness ==
  \E a, b \in VCalls :
    /\ a < b /\ vcall[a].state = vcall[b].state
    /\ vcall[a].result = "verified" /\ ~vcall[a].replay
    /\ vcall[b].replay /\ vcall[b].vp = vcall[a].vp
    /\ vcall[b].vp = ValidPresentation(vcall[b].state)
    /\ vcall[b].result = "verified"
    /\ vcall[b].state \in requestStore /\ requestObj[vcall[b].state].verified

(* C37: a presentation request that has been evicted from the store is     *)
(* never written back: no step puts a state that was created and is no      *)
(* longer stored into the store again, and no call reports success in a     *)
(* step in which its request is not stored.                                 *)
C37_EvictedNeverWrittenBack ==
  [][/\ \A s \in States :
          (s <= nextState /\ s \notin requestStore) => s \notin requestStore'
     /\ \A k \in VCalls :
          (vcall[k].pc # "done" /\ vcall'[k].result = "verified") =>
            vcall[k].state \in requestStore]_vars

(* C38: the credential issued for an offer carries the offer's              *)
(* credentialType among its types.                                          *)
C38_OfferTypeIssued ==
  \A k \in ICalls :
    icall[k].result = "credential" =>
      offerObj[icall[k].code].credentialType \in icall[k].credential.type

(* C39: createCredentialOffer sets expiresAt to the creation time plus the  *)
(* supplied expiresIn for every supplied value, 0 included.                 *)
C39_SuppliedLifetimeKept ==
  [][\A e \in ExpiresInInputs \ {NotSupplied}, pinRequired \in BOOLEAN,
        pin \in GeneratedPins :
        CreateCredentialOffer(IdentityType, NoSubjectId, NoDid, pinRequired, pin, e)
          => offerObj'[nextCode'].expiresAt = now + e]_vars

(* C40: exchangePreAuthorizedCode evaluates its checks in a fixed order:    *)
(* a code whose lookup found nothing or found it expired reports 'Invalid   *)
(* pre-authorized code' even if the offer had been used, and a used offer   *)
(* reports 'Pre-authorized code already used' whatever PIN was supplied.    *)
C40_ChecksInFixedOrder ==
  [][\A k \in XCalls :
       (xcall[k].pc = "awaitGet" /\ xcall'[k].pc # "awaitGet") =>
         /\ xcall[k].lookup # "live" => xcall'[k].result = ErrInvalidCode
         /\ (xcall[k].lookup = "live" /\ offerObj[xcall[k].code].used)
              => xcall'[k].result = ErrCodeUsed]_vars

(* a used PIN offer exchanged again with a missing or wrong PIN reported    *)
(* 'Pre-authorized code already used'                                       *)
C40_Witness ==
  \E k \in XCalls :
    /\ xcall[k].pc = "done"
    /\ xcall[k].lookup = "live"
    /\ offerObj[xcall[k].code].userPin # NoPin
    /\ xcall[k].pin # offerObj[xcall[k].code].userPin
    /\ xcall[k].result = ErrCodeUsed

(* an offer that was used and then expired reported 'Invalid                *)
(* pre-authorized code' when exchanged again                                *)
C40_ExpiredUsedOfferReported ==
  \E k \in XCalls :
    /\ xcall[k].pc = "done"
    /\ xcall[k].lookup = "expired"
    /\ offerObj[xcall[k].code].used
    /\ xcall[k].result = ErrInvalidCode

====
